---------------------------- MODULE Spec2Model ----------------------------
(***************************************************************************)
(* Model of cta-tracker's app.py: two background refresh loops             *)
(* (poll_forever / poll_bus_forever) that fetch, normalize and publish     *)
(* departures into two module-level dictionaries (_cache / _bus_cache),    *)
(* and two read endpoints (get_departures / get_bus_departures).           *)
(*                                                                         *)
(* Execution model.  The two loops are asyncio tasks of one event loop:    *)
(* a task runs without interruption by the other task from one await to    *)
(* the next.  The two endpoints are plain `def` functions, which the web   *)
(* framework runs in worker threads; a worker thread can run between any   *)
(* two statements of the event-loop thread.  The three stores of lines     *)
(* 94-96 (133-135) and the loads of lines 164-166 (172-174) are therefore  *)
(* separate steps here.                                                    *)
(*                                                                         *)
(* Encoding.  Python None is None (error), NoTime (updated_at) and         *)
(* NoMinutes (minutes).  Text whose characters matter (countdown,          *)
(* direction) is a sequence of one-character strings.  A rail timestamp    *)
(* text is <<h, m, s>> of one service day when it matches the strptime     *)
(* format and << >> when it is missing or malformed.                       *)
(***************************************************************************)
EXTENDS Integers, Sequences, FiniteSets, TLC

\* ------------------------------------------------------------------ bounds
\* Clock readings are 1..MaxNow.
MaxNow == 2

\* The widget shows arrivals of 0..MaxMinutes minutes.
MaxMinutes == 11

\* --------------------------------------------------------------- encodings
None == "<None>"
NoTime == 0
NoMinutes == -1

Feeds == {"rail", "bus"}
Readers == {"worker"}

Other(f) == IF f = "rail" THEN "bus" ELSE "rail"

Max(a, b) == IF a > b THEN a ELSE b

\* ------------------------------------------------------------ text helpers
UpperAlpha == <<"A","B","C","D","E","F","G","H","I","J","K","L","M",
                "N","O","P","Q","R","S","T","U","V","W","X","Y","Z">>
LowerAlpha == <<"a","b","c","d","e","f","g","h","i","j","k","l","m",
                "n","o","p","q","r","s","t","u","v","w","x","y","z">>
Digits == <<"0","1","2","3","4","5","6","7","8","9">>

IndexIn(c, alphabet) ==
    IF \E i \in 1..Len(alphabet) : alphabet[i] = c
    THEN CHOOSE i \in 1..Len(alphabet) : alphabet[i] = c
    ELSE 0

LowerCh(c) == IF IndexIn(c, UpperAlpha) > 0 THEN LowerAlpha[IndexIn(c, UpperAlpha)] ELSE c
UpperCh(c) == IF IndexIn(c, LowerAlpha) > 0 THEN UpperAlpha[IndexIn(c, LowerAlpha)] ELSE c

Lower(s) == [i \in 1..Len(s) |-> LowerCh(s[i])]
Upper(s) == [i \in 1..Len(s) |-> UpperCh(s[i])]

RECURSIVE LStrip(_)
LStrip(s) == IF s # << >> /\ Head(s) = " " THEN LStrip(Tail(s)) ELSE s

RECURSIVE RStrip(_)
RStrip(s) == IF s # << >> /\ s[Len(s)] = " " THEN RStrip(SubSeq(s, 1, Len(s) - 1)) ELSE s

Strip(s) == RStrip(LStrip(s))

\* Characters that str.isdigit accepts and int() rejects; "sup2" stands for
\* the one character SUPERSCRIPT TWO (U+00B2).
SuperDigits == <<"sup2">>

\* str.isdigit
IsDigit(s) ==
    /\ s # << >>
    /\ \A i \in 1..Len(s) : IndexIn(s[i], Digits) > 0 \/ IndexIn(s[i], SuperDigits) > 0

\* int(s) of a text that passed isdigit returns (it raises ValueError on a
\* character that is not a decimal digit).
IntParses(s) == \A i \in 1..Len(s) : IndexIn(s[i], Digits) > 0

RECURSIVE ToInt(_)
ToInt(s) == IF s = << >> THEN 0
            ELSE 10 * ToInt(SubSeq(s, 1, Len(s) - 1)) + (IndexIn(s[Len(s)], Digits) - 1)

\* Python's ordering of the short strings used as routes and bus timestamps.
StrOrder == <<"", "1", "2", "78", "A", "B", "Blue", "Red">>
StrRank(s) == IndexIn(s, StrOrder)

\* Python truth value of a cache error (None and "" are false).
Truthy(e) == e # None /\ e # ""

\* -------------------------------------------------------------- normalizers
ParseOk(t) == Len(t) = 3
Seconds(t) == t[1] * 3600 + t[2] * 60 + t[3]

EtaParses(eta) == ParseOk(eta.prdt) /\ ParseOk(eta.arrT)

\* Faulty variant: the text of the child element as it is.
TxtUnguarded(x) == x

\* txt(name) of lines 28-30, for a child element that is missing (None), has
\* no text ("") or only white space (" "), or has the text x (which has no
\* white space around it): the stripped text, "" when there is none.
Txt(x) == IF x = None \/ x = "" \/ x = " " THEN "" ELSE x

\* Faulty variant: the difference is not clamped at zero.
_parse_eta_signed(eta) ==
    [platform     |-> Txt(eta.stpDe),
     route        |-> Txt(eta.rt),
     dest_name    |-> Txt(eta.destNm),
     predicted_at |-> Seconds(eta.prdt),
     arrives_at   |-> Seconds(eta.arrT),
     minutes      |-> (Seconds(eta.arrT) - Seconds(eta.prdt)) \div 60,
     is_delayed   |-> Txt(eta.isDly) = "1"]

_parse_eta(eta) ==
    [platform     |-> Txt(eta.stpDe),
     route        |-> Txt(eta.rt),
     dest_name    |-> Txt(eta.destNm),
     predicted_at |-> Seconds(eta.prdt),
     arrives_at   |-> Seconds(eta.arrT),
     minutes      |-> Max((Seconds(eta.arrT) - Seconds(eta.prdt)) \div 60, 0),
     is_delayed   |-> Txt(eta.isDly) = "1"]

\* Line 55 returns: int() accepts the text that isdigit accepted.
PrdParses(prd) == IsDigit(Strip(prd.prdctdn)) => IntParses(Strip(prd.prdctdn))

\* Faulty variant: a signed countdown is taken as the integer it spells.
_parse_bus_prd_signed(prd) ==
    LET raw_mins == Strip(prd.prdctdn)
    IN  [route      |-> prd.rt,
         direction  |-> prd.rtdir,
         dest_name  |-> prd.des,
         arrives_at |-> prd.prdtm,
         minutes    |-> IF IsDigit(raw_mins) THEN ToInt(raw_mins)
                        ELSE IF raw_mins # << >> /\ Head(raw_mins) = "-" /\ IsDigit(Tail(raw_mins))
                             THEN 0 - ToInt(Tail(raw_mins))
                        ELSE IF Upper(raw_mins) = <<"D","U","E">> THEN 0
                        ELSE NoMinutes,
         is_delayed |-> prd.dly]

_parse_bus_prd(prd) ==
    LET raw_mins == Strip(prd.prdctdn)
    IN  [route      |-> prd.rt,
         direction  |-> prd.rtdir,
         dest_name  |-> prd.des,
         arrives_at |-> prd.prdtm,
         minutes    |-> IF IsDigit(raw_mins) THEN ToInt(raw_mins)
                        ELSE IF Upper(raw_mins) = <<"D","U","E">> THEN 0
                        ELSE NoMinutes,
         is_delayed |-> prd.dly]

Southbound == <<"s","o","u","t","h","b","o","u","n","d">>

\* Sort keys of lines 93 and 132.
\* Faulty variant: the key is arrives_at alone.
RailKeyLEArrival(a, b) == a.arrives_at <= b.arrives_at

RailKeyLE(a, b) ==
    \/ a.arrives_at < b.arrives_at
    \/ a.arrives_at = b.arrives_at /\ StrRank(a.route) <= StrRank(b.route)

\* x or "" of line 132.
OrEmpty(x) == IF x = None THEN "" ELSE x

BusKeyLE(a, b) ==
    \/ StrRank(OrEmpty(a.arrives_at)) < StrRank(OrEmpty(b.arrives_at))
    \/ /\ OrEmpty(a.arrives_at) = OrEmpty(b.arrives_at)
       /\ StrRank(OrEmpty(a.route)) <= StrRank(OrEmpty(b.route))

\* list.sort is stable: x goes after the last element whose key is <= its key.
RECURSIVE InsertRail(_, _)
InsertRail(x, s) ==
    IF s = << >> THEN <<x>>
    ELSE IF RailKeyLE(s[Len(s)], x) THEN Append(s, x)
    ELSE Append(InsertRail(x, SubSeq(s, 1, Len(s) - 1)), s[Len(s)])

RECURSIVE SortRail(_)
SortRail(s) == IF s = << >> THEN << >>
               ELSE InsertRail(s[Len(s)], SortRail(SubSeq(s, 1, Len(s) - 1)))

RECURSIVE InsertBus(_, _)
InsertBus(x, s) ==
    IF s = << >> THEN <<x>>
    ELSE IF BusKeyLE(s[Len(s)], x) THEN Append(s, x)
    ELSE Append(InsertBus(x, SubSeq(s, 1, Len(s) - 1)), s[Len(s)])

RECURSIVE SortBus(_)
SortBus(s) == IF s = << >> THEN << >>
              ELSE InsertBus(s[Len(s)], SortBus(SubSeq(s, 1, Len(s) - 1)))

\* JSON null in a field whose characters matter otherwise.
NullText == <<None>>

\* Line 130 evaluates p.get("direction", "").lower(): rtdir is text (<< >>
\* when the key is missing, for which line 62 puts "") and not JSON null, for
\* which the attribute lookup raises AttributeError.
DirectionLowers(prd) == prd.rtdir # NullText

RECURSIVE KeepSouthbound(_)
KeepSouthbound(s) ==
    IF s = << >> THEN << >>
    ELSE IF Lower(Head(s).direction) = Southbound
         THEN <<Head(s)>> \o KeepSouthbound(Tail(s))
         ELSE KeepSouthbound(Tail(s))

MapEta(s) == [i \in 1..Len(s) |-> _parse_eta(s[i])]
MapPrd(s) == [i \in 1..Len(s) |-> _parse_bus_prd(s[i])]

\* ---------------------------------------------------------- upstream inputs
\* Rail prediction elements (<eta>) as upstream sends them.
EtaHoward == [prdt |-> <<8, 0, 0>>, arrT |-> <<8, 5, 30>>, rt |-> "Red",
              destNm |-> "Howard", stpDe |-> "Service toward Howard", isDly |-> "0"]
EtaOHare  == [prdt |-> <<8, 0, 10>>, arrT |-> <<8, 2, 0>>, rt |-> "Blue",
              destNm |-> "O'Hare", stpDe |-> "", isDly |-> "1"]
EtaNoTime == [prdt |-> <<8, 0, 0>>, arrT |-> << >>, rt |-> "Red",
              destNm |-> "Howard", stpDe |-> "", isDly |-> "0"]

EtaEarly  == [prdt |-> <<8, 0, 0>>, arrT |-> <<7, 59, 30>>, rt |-> "Red",
              destNm |-> "95th/Dan Ryan", stpDe |-> "", isDly |-> "0"]

\* What one rail request can end with: kind "transport" is an exception of
\* client.get (msg is its str(); a timeout's is empty), "status" a non-success
\* status raised by raise_for_status, "xml" a parsed <ctatt> document.
RailResponses ==
    { [kind |-> "transport", msg |-> "", errCd |-> None, errNm |-> None, etas |-> << >>],
      [kind |-> "status", msg |-> "Server error '500'", errCd |-> None, errNm |-> None, etas |-> << >>],
      [kind |-> "xml", msg |-> "", errCd |-> "1", errNm |-> "Bad Request", etas |-> <<EtaHoward>>],
      [kind |-> "xml", msg |-> "", errCd |-> "0", errNm |-> None, etas |-> <<EtaHoward, EtaOHare, EtaEarly>>],
      [kind |-> "xml", msg |-> "", errCd |-> None, errNm |-> None, etas |-> << >>],
      [kind |-> "xml", msg |-> "", errCd |-> "0", errNm |-> None, etas |-> <<EtaOHare, EtaNoTime>>] }

\* Bus prediction objects (prd) as upstream sends them.
PrdSouth == [prdctdn |-> <<"7">>, rt |-> "78", des |-> "Montrose Harbor",
             rtdir |-> <<"S","o","u","t","h","b","o","u","n","d">>,
             prdtm |-> "2", dly |-> FALSE]
PrdNorth == [prdctdn |-> <<"D","U","E">>, rt |-> "78", des |-> "Harlem",
             rtdir |-> <<"N","o","r","t","h","b","o","u","n","d">>,
             prdtm |-> "1", dly |-> FALSE]

PrdSigned == [prdctdn |-> <<"-","3">>, rt |-> "78", des |-> "Montrose Harbor",
              rtdir |-> <<"S","O","U","T","H","B","O","U","N","D">>,
              prdtm |-> "1", dly |-> TRUE]

\* What one bus request can end with: "transport" and "status" as for rail,
\* "json" a decoded body; envelope says whether "bustime-response" is in it,
\* errForm whether its "error" is absent, a list of objects (errMsgs holds
\* each entry's msg, None for an entry without one) or some other truthy value;
\* errRaw is str() of the error value ("" when there is none).
BusResponses ==
    { [kind |-> "transport", msg |-> "", envelope |-> FALSE, errForm |-> "absent",
       errMsgs |-> << >>, errRaw |-> "", prd |-> << >>],
      [kind |-> "status", msg |-> "Server error '500'", envelope |-> FALSE, errForm |-> "absent",
       errMsgs |-> << >>, errRaw |-> "", prd |-> << >>],
      [kind |-> "json", msg |-> "", envelope |-> FALSE, errForm |-> "absent",
       errMsgs |-> << >>, errRaw |-> "", prd |-> << >>],
      [kind |-> "json", msg |-> "", envelope |-> TRUE, errForm |-> "list",
       errMsgs |-> <<"No data found for parameter">>,
       errRaw |-> "[{'msg': 'No data found for parameter'}]", prd |-> <<PrdSouth>>],
      [kind |-> "json", msg |-> "", envelope |-> TRUE, errForm |-> "absent",
       errMsgs |-> << >>, errRaw |-> "", prd |-> << >>],
      [kind |-> "json", msg |-> "", envelope |-> TRUE, errForm |-> "list",
       errMsgs |-> << >>, errRaw |-> "[]", prd |-> <<PrdNorth, PrdSouth, PrdSigned>>] }

Responses(f) == IF f = "rail" THEN RailResponses ELSE BusResponses

\* ------------------------------------------------- one cycle, lines 84-93
\* The result of the part of poll_once that runs after the request returns
\* and before the first store: ok with the sorted list, or the str() of the
\* exception that left the function.
Failed(m) == [ok |-> FALSE, msg |-> m, items |-> << >>]
Succeeded(s) == [ok |-> TRUE, msg |-> None, items |-> s]

FmtOpt(x) == IF x = None THEN "None" ELSE x

\* Faulty variant: a prediction that does not parse is skipped and the rest
\* of the payload is published.
poll_once_SkipBad(resp) ==
    IF resp.kind \in {"transport", "status"} THEN Failed(resp.msg)
    ELSE IF resp.errCd # None /\ resp.errCd # "" /\ resp.errCd # "0"
         THEN Failed("CTA error " \o resp.errCd \o ": " \o FmtOpt(resp.errNm))
    ELSE Succeeded(SortRail(MapEta(SelectSeq(resp.etas, EtaParses))))

\* Faulty variant: the error code is looked at only when the document has no
\* predictions.
poll_once_PredictionsFirst(resp) ==
    IF resp.kind \in {"transport", "status"} THEN Failed(resp.msg)
    ELSE IF resp.etas = << >> /\ resp.errCd # None /\ resp.errCd # "" /\ resp.errCd # "0"
         THEN Failed("CTA error " \o resp.errCd \o ": " \o FmtOpt(resp.errNm))
    ELSE IF \E i \in 1..Len(resp.etas) : ~EtaParses(resp.etas[i])
         THEN Failed("time data '' does not match format '%Y%m%d %H:%M:%S'")
    ELSE Succeeded(SortRail(MapEta(resp.etas)))

poll_once(resp) ==
    IF resp.kind \in {"transport", "status"} THEN Failed(resp.msg)
    ELSE IF resp.errCd # None /\ resp.errCd # "" /\ resp.errCd # "0"
         THEN Failed("CTA error " \o resp.errCd \o ": " \o FmtOpt(resp.errNm))
    ELSE IF \E i \in 1..Len(resp.etas) : ~EtaParses(resp.etas[i])
         THEN Failed("time data '' does not match format '%Y%m%d %H:%M:%S'")
    ELSE Succeeded(SortRail(MapEta(resp.etas)))

RECURSIVE Join(_, _)
Join(sep, s) == IF s = << >> THEN ""
                ELSE IF Len(s) = 1 THEN s[1]
                ELSE s[1] \o sep \o Join(sep, Tail(s))

\* e.get("msg", "") of an entry of the error list (None: it has no msg).
MsgOf(m) == IF m = None THEN "" ELSE m

\* Faulty variant: the first entry's message alone.
BusErrorTextFirst(msgs) ==
    IF MsgOf(msgs[1]) # "" THEN MsgOf(msgs[1]) ELSE "Bus API error"

\* Line 122: the joined messages, or the default text when the join is empty.
BusErrorText(msgs) ==
    IF Join("; ", [i \in 1..Len(msgs) |-> MsgOf(msgs[i])]) # ""
    THEN Join("; ", [i \in 1..Len(msgs) |-> MsgOf(msgs[i])])
    ELSE "Bus API error"

\* Faulty variant: a body without the envelope is read as an empty envelope.
poll_bus_once_AnyBody(resp) ==
    IF resp.kind \in {"transport", "status"} THEN Failed(resp.msg)
    ELSE IF ~resp.envelope THEN Succeeded(<< >>)
    ELSE IF resp.errForm = "list" /\ resp.errMsgs # << >>
         THEN Failed(BusErrorText(resp.errMsgs))
    ELSE IF resp.errForm = "raw" /\ resp.errRaw # ""
         THEN Failed(resp.errRaw)
    ELSE IF \E i \in 1..Len(resp.prd) : ~PrdParses(resp.prd[i])
         THEN Failed("invalid literal for int() with base 10: 'sup2'")
    ELSE IF \E i \in 1..Len(resp.prd) : ~DirectionLowers(resp.prd[i])
         THEN Failed("'NoneType' object has no attribute 'lower'")
    ELSE Succeeded(SortBus(KeepSouthbound(MapPrd(resp.prd))))

poll_bus_once(resp) ==
    IF resp.kind \in {"transport", "status"} THEN Failed(resp.msg)
    ELSE IF ~resp.envelope THEN Failed("Unexpected Bus API response")
    ELSE IF resp.errForm = "list" /\ resp.errMsgs # << >>
         THEN Failed(BusErrorText(resp.errMsgs))
    ELSE IF resp.errForm = "raw" /\ resp.errRaw # ""
         THEN Failed(resp.errRaw)
    ELSE IF \E i \in 1..Len(resp.prd) : ~PrdParses(resp.prd[i])
         THEN Failed("invalid literal for int() with base 10: 'sup2'")
    ELSE IF \E i \in 1..Len(resp.prd) : ~DirectionLowers(resp.prd[i])
         THEN Failed("'NoneType' object has no attribute 'lower'")
    ELSE Succeeded(SortBus(KeepSouthbound(MapPrd(resp.prd))))

PollOnce(f, resp) == IF f = "rail" THEN poll_once(resp) ELSE poll_bus_once(resp)

\* Lines 74-82 and 100-103: the configuration checks at the top of a cycle.
\* None when the cycle goes on to the request, else the RuntimeError's text.
ConfigError(f, c) ==
    IF f = "rail"
    THEN IF ~c.keyTrain THEN "Set CTA_API_KEY"
         ELSE IF ~c.stpId /\ ~c.mapId THEN "Set CTA_MAP_ID or CTA_STP_ID"
         ELSE None
    ELSE IF ~c.keyBus THEN "Set CTA_API_KEY_BUS"
         ELSE IF ~c.busStpId THEN "Set CTA_BUS_STP_ID (bus stop ID, stpid)"
         ELSE None

\* ------------------------------------------- desk_widget.py: arrival pulses
\* The widget's Controller, as a record w.  Times, opacities and steps are in
\* hundredths (opacity 1.0 is 100).  A view that exists is "view"; the views
\* of one pulse key are told apart by the key.
\*   build        "ca" when the import of CABasicAnimation succeeded,
\*                "timer" when it is None (the fallback)
\*   ready        train_pulse_ready / bus_pulse_ready
\*   pulse_view   train_pulse_view / bus_pulse_view
\*   pulse_timers the table: does the key have a timer
\*   live         per key, the timers scheduled on the run loop and not
\*                invalidated (timers.info["key"] = key)
\*   info         per key, the userInfo of the timer in the table
\*   anim         per key, does the view's layer hold an animation under it
\*   opacity      per key, the opacity of the layer of the key's view
\*   within, before, started   history: per feed, was the nearest arrival
\*                of the latest update within the threshold, was that of the
\*                update before it, and did the latest update start a pulse
WFeeds == {"train", "bus"}

train_threshold == 5

bus_threshold == 10

Threshold(f) == IF f = "train" THEN train_threshold ELSE bus_threshold

MainKey(f) == IF f = "train" THEN "pulse_train" ELSE "pulse_bus_route"

LabelKey(f) == IF f = "train" THEN "pulse_train_label" ELSE "pulse_bus_label"

Keys == {MainKey(f) : f \in WFeeds} \cup {LabelKey(f) : f \in WFeeds}

MaxOpacity == 100

MinOpacity == 30

PulseStep == 4

max_pulses == 5

\* The userInfo of a new timer, line 448-455.
NewInfo == [value |-> MaxOpacity, direction |-> 0 - PulseStep, pulses |-> 0]

\* applicationDidFinishLaunching_, lines 249-255.
Launched(b) ==
    [build |-> b,
     ready |-> [f \in WFeeds |-> TRUE],
     pulse_view |-> [f \in WFeeds |-> None],
     pulse_timers |-> [k \in Keys |-> FALSE],
     live |-> [k \in Keys |-> 0],
     info |-> [k \in Keys |-> NewInfo],
     anim |-> [k \in Keys |-> FALSE],
     opacity |-> [k \in Keys |-> MaxOpacity],
     within |-> [f \in WFeeds |-> FALSE],
     before |-> [f \in WFeeds |-> FALSE],
     started |-> [f \in WFeeds |-> FALSE]]

_mark_pulse_finished(w, key) ==
    [w EXCEPT !.pulse_view =
        [f \in WFeeds |-> IF key = LabelKey(f) THEN None ELSE w.pulse_view[f]]]

\* Faulty variant: the table is not consulted, every call schedules a timer.
_start_timer_pulse_Always(w, view, key) ==
    IF view = None THEN w
    ELSE [w EXCEPT !.opacity[key] = MaxOpacity,
                   !.info[key] = NewInfo,
                   !.pulse_timers[key] = TRUE,
                   !.live[key] = @ + 1]

\* Lines 440-456.  With a timer in the table only its view is replaced.
_start_timer_pulse(w, view, key) ==
    IF view = None THEN w
    ELSE IF w.pulse_timers[key]
         THEN [w EXCEPT !.opacity[key] = MaxOpacity]
         ELSE [w EXCEPT !.opacity[key] = MaxOpacity,
                        !.info[key] = NewInfo,
                        !.pulse_timers[key] = TRUE,
                        !.live[key] = @ + 1]

\* Lines 458-470: pop, invalidate, restore the opacity when asked to.
_stop_timer_pulse(w, key, reset) ==
    IF ~w.pulse_timers[key] THEN w
    ELSE _mark_pulse_finished(
             [w EXCEPT !.pulse_timers[key] = FALSE,
                       !.live[key] = @ - 1,
                       !.opacity[key] = IF reset THEN MaxOpacity ELSE @],
             key)

Min2(a, b) == IF a <= b THEN a ELSE b

Max2(a, b) == IF a >= b THEN a ELSE b

\* The opacity and the direction after one step, lines 487-492.
Stepped(info) ==
    LET raw == info.value + info.direction
        turn == raw <= MinOpacity \/ raw >= MaxOpacity
    IN [value |-> IF turn THEN Max2(Min2(raw, MaxOpacity), MinOpacity) ELSE raw,
        direction |-> IF turn THEN 0 - info.direction ELSE info.direction,
        low |-> turn /\ Max2(Min2(raw, MaxOpacity), MinOpacity) = MinOpacity]

\* Lines 472-510, the timer of key fires.  layer: the timer's view still has
\* a layer (lines 478-485 when it has not).
pulseTick_(w, key, layer) ==
    IF ~layer
    THEN _mark_pulse_finished(
             [w EXCEPT !.pulse_timers[key] = FALSE, !.live[key] = @ - 1], key)
    ELSE LET s == Stepped(w.info[key])
             pulses == IF s.low THEN w.info[key].pulses + 1
                       ELSE w.info[key].pulses
         IN IF s.low /\ pulses >= max_pulses
            THEN _stop_timer_pulse(
                     [w EXCEPT !.info[key].pulses = pulses,
                               !.opacity[key] = MaxOpacity],
                     key, FALSE)
            ELSE [w EXCEPT !.info[key] = [value |-> s.value,
                                          direction |-> s.direction,
                                          pulses |-> pulses],
                           !.opacity[key] = s.value]

\* Lines 518-550.
_apply_pulse(w, view, should_pulse, key) ==
    IF view = None THEN _stop_timer_pulse(w, key, TRUE)
    ELSE IF w.build = "ca"
    THEN LET w0 == _stop_timer_pulse(w, key, FALSE)
         IN IF ~should_pulse
            THEN [w0 EXCEPT !.anim[key] = FALSE, !.opacity[key] = MaxOpacity]
            ELSE IF w0.anim[key] THEN w0
            ELSE [w0 EXCEPT !.anim[key] = TRUE, !.opacity[key] = MaxOpacity]
    ELSE IF should_pulse THEN _start_timer_pulse(w, view, key)
    ELSE _stop_timer_pulse(w, key, TRUE)

Within(f, m) == m # NoMinutes /\ m <= Threshold(f)

\* Faulty variant: the pulse is applied by every update within the threshold.
UpdateFeedEvery(w, f, m) ==
    IF Within(f, m)
    THEN LET w1 == [w EXCEPT !.pulse_view[f] = "view"]
             w2 == _apply_pulse(w1, "view", TRUE, MainKey(f))
             w3 == _apply_pulse(w2, "view", TRUE, LabelKey(f))
         IN [w3 EXCEPT !.ready[f] = FALSE]
    ELSE LET w1 == IF ~w.ready[f]
                   THEN _apply_pulse(w, "view", FALSE, MainKey(f))
                   ELSE w
             w2 == IF ~w.ready[f] /\ w.pulse_view[f] # None
                   THEN _apply_pulse(w1, w.pulse_view[f], FALSE, LabelKey(f))
                   ELSE w1
         IN [w2 EXCEPT !.ready[f] = TRUE, !.pulse_view[f] = None]

\* One feed's half of _update_pulses, lines 559-576 (577-601).  m is the
\* minutes of the first view that has any, NoMinutes when none has.
UpdateFeed(w, f, m) ==
    IF Within(f, m)
    THEN IF w.ready[f]
         THEN LET w1 == [w EXCEPT !.pulse_view[f] = "view"]
                  w2 == _apply_pulse(w1, "view", TRUE, MainKey(f))
                  w3 == _apply_pulse(w2, "view", TRUE, LabelKey(f))
              IN [w3 EXCEPT !.ready[f] = FALSE]
         ELSE w
    ELSE LET w1 == IF ~w.ready[f]
                   THEN _apply_pulse(w, "view", FALSE, MainKey(f))
                   ELSE w
             w2 == IF ~w.ready[f] /\ w.pulse_view[f] # None
                   THEN _apply_pulse(w1, w.pulse_view[f], FALSE, LabelKey(f))
                   ELSE w1
         IN [w2 EXCEPT !.ready[f] = TRUE, !.pulse_view[f] = None]

\* Lines 552-601.
_update_pulses(w, tm, bm) == UpdateFeed(UpdateFeed(w, "train", tm), "bus", bm)

\* ------------------------------------------- desk_widget.py: next_two_mins
\* A JSON value in the place of "minutes": t is "absent" (no such key),
\* "null", "int" (the number n) or "str" (the characters s).
MinAbsent == [t |-> "absent", n |-> 0, s |-> << >>]

MinNull == [t |-> "null", n |-> 0, s |-> << >>]

MinInt(n) == [t |-> "int", n |-> n, s |-> << >>]

MinStr(s) == [t |-> "str", n |-> 0, s |-> s]

\* Line 77 and lines 79-80: is the value appended, does int(m) raise, and
\* what is appended.
Appends(m) == (m.t = "int" /\ m.n >= 0) \/ (m.t = "str" /\ IsDigit(m.s))

IntRaises(m) == m.t = "str" /\ IsDigit(m.s) /\ ~IntParses(m.s)

Appended(m) == IF m.t = "int" THEN m.n ELSE ToInt(m.s)

RECURSIVE Collect(_)
Collect(xs) ==
    IF xs = << >> THEN << >>
    ELSE IF Appends(Head(xs).minutes) THEN <<Appended(Head(xs).minutes)>> \o Collect(Tail(xs))
    ELSE Collect(Tail(xs))

RECURSIVE InsertInt(_, _)
InsertInt(x, s) ==
    IF s = << >> THEN <<x>>
    ELSE IF x < Head(s) THEN <<x>> \o s
    ELSE <<Head(s)>> \o InsertInt(x, Tail(s))

\* list.sort of integers.
RECURSIVE SortInts(_)
SortInts(s) == IF s = << >> THEN << >> ELSE InsertInt(s[Len(s)], SortInts(SubSeq(s, 1, Len(s) - 1)))

\* Lines 72-84.  data: is the JSON value an object, and what it has under
\* "data" ("absent", "null" or "list", the list being xs).  ok is FALSE when
\* the call raises: iterating None (line 75), or int() of a text that
\* isdigit accepts and int rejects (line 80).
next_two_mins(data) ==
    LET xs == IF data.object /\ data.data = "list" THEN data.xs ELSE << >>
    IN IF data.object /\ data.data = "null" THEN [ok |-> FALSE, mins |-> << >>]
       ELSE IF \E i \in 1..Len(xs) : IntRaises(xs[i].minutes) THEN [ok |-> FALSE, mins |-> << >>]
       ELSE [ok |-> TRUE,
             mins |-> SubSeq(SortInts(Collect(xs)), 1, Min2(2, Len(Collect(xs))))]

\* ------------------------------------------------------------------- state
VARIABLES
    cfg,      \* which environment variables are set (non-empty)
    app,      \* "starting", "running" or "failed" (_startup raised)
    pc,       \* per feed, where its refresh task is
    items,    \* per feed, the local list of the cycle that is publishing
    cache,    \* per feed, the dictionary _cache / _bus_cache
    rd,       \* per reader, the endpoint call it is executing
    last,     \* history: per feed, outcome of its latest completed cycle, the
              \* updated_at the cache held when it completed, and (good) what
              \* the feed's latest successful cycle published
    everOK,   \* history: per feed, whether a cycle has ever succeeded
    probe,    \* the function application under examination (NoProbe while
              \* the service runs)
    req,      \* history: per feed, the number of requests that its cycle in
              \* progress (or, between cycles, its latest cycle) has issued
    widget    \* the desktop widget's Controller (desk_widget.py), a record

vars == <<cfg, app, pc, items, cache, rd, last, everOK, probe, req, widget>>

EmptyCache == [updated_at |-> NoTime, data |-> << >>, error |-> None]

Configs ==
    { [keyTrain |-> TRUE,  stpId |-> FALSE, mapId |-> TRUE,  keyBus |-> TRUE,  busStpId |-> TRUE],
      [keyTrain |-> FALSE, stpId |-> FALSE, mapId |-> TRUE,  keyBus |-> TRUE,  busStpId |-> TRUE],
      [keyTrain |-> TRUE,  stpId |-> FALSE, mapId |-> FALSE, keyBus |-> TRUE,  busStpId |-> TRUE],
      [keyTrain |-> TRUE,  stpId |-> TRUE,  mapId |-> FALSE, keyBus |-> FALSE, busStpId |-> TRUE],
      [keyTrain |-> TRUE,  stpId |-> FALSE, mapId |-> TRUE,  keyBus |-> TRUE,  busStpId |-> FALSE] }

IdleReader == [pc |-> "idle", feed |-> "rail", err |-> None, res |-> "none", detail |-> None]

NoProbe == [op |-> "none"]
NoCycle == [kind |-> "none", msg |-> None, upd |-> NoTime,
            good |-> [updated_at |-> NoTime, data |-> << >>]]

ServiceInit ==
    /\ cfg \in Configs
    /\ app = "starting"
    /\ pc = [f \in Feeds |-> "none"]
    /\ items = [f \in Feeds |-> << >>]
    /\ cache = [f \in Feeds |-> EmptyCache]
    /\ rd = [r \in Readers |-> IdleReader]
    /\ last = [f \in Feeds |-> NoCycle]
    /\ everOK = [f \in Feeds |-> FALSE]
    /\ probe = NoProbe
    /\ req = [f \in Feeds |-> 0]

\* The widget is another process; it stays as launched while the service is
\* examined.
Init == ServiceInit /\ widget = Launched("ca")

\* ------------------------------------------------------------ cache stores
\* Faulty variants: the handler resets the cached list, or the timestamp.
RecordErrorWipe(c, m) == [c EXCEPT !.error = m, !.data = << >>]
RecordErrorReset(c, m) == [c EXCEPT !.error = m, !.updated_at = NoTime]
\* Faulty variant: the handler stamps the cache with the time of the failure.
RecordErrorStamped(c, m) == [c EXCEPT !.error = m, !.updated_at = MaxNow]
RecordError(c, m) == [c EXCEPT !.error = m]          \* lines 142, 151
StoreUpdatedAt(c, t) == [c EXCEPT !.updated_at = t]  \* lines 94, 133
\* Faulty variant: an empty result does not replace the stored list.
StoreDataUnlessEmpty(c, s) == IF s = << >> THEN c ELSE [c EXCEPT !.data = s]
StoreData(c, s) == [c EXCEPT !.data = s]             \* lines 95, 134
\* Faulty variant: a successful cycle leaves the old error in place.
ClearErrorForgotten(c) == c
ClearError(c) == [c EXCEPT !.error = None]           \* lines 96, 135

\* The event-loop thread is inside the three stores of some task.
Publishing(f) == pc[f] \in {"st_upd", "st_data", "st_err"}
LoopFree == \A g \in Feeds : ~Publishing(g)

\* History bookkeeping at the end of a cycle of f (no program state).
Finish(f, kind, m) ==
    /\ last' = [last EXCEPT ![f] =
                  [kind |-> kind, msg |-> m, upd |-> cache'[f].updated_at,
                   good |-> IF kind = "ok"
                            THEN [updated_at |-> cache'[f].updated_at, data |-> items[f]]
                            ELSE last[f].good]]
    /\ everOK' = [everOK EXCEPT ![f] = @ \/ kind = "ok"]

\* Faulty variants: the exception is not caught and ends the task; the
\* handler of either loop writes a feed's error into both dictionaries.
ExceptUncaught(f, m) ==
    /\ cache' = cache
    /\ pc' = [pc EXCEPT ![f] = "none"]
    /\ Finish(f, "fail", m)

ExceptShared(f, m) ==
    /\ cache' = [g \in Feeds |-> RecordError(cache[g], m)]
    /\ pc' = [pc EXCEPT ![f] = "sleep"]
    /\ Finish(f, "fail", m)

\* The except clause of poll_forever / poll_bus_forever, then the sleep.
Except(f, m) ==
    /\ cache' = [cache EXCEPT ![f] = RecordError(@, m)]
    /\ pc' = [pc EXCEPT ![f] = "sleep"]
    /\ Finish(f, "fail", m)

\* --------------------------------------------------------------- _startup
StartupOk(c) == c.keyTrain

Startup ==
    /\ app = "starting"
    /\ IF StartupOk(cfg)
       THEN app' = "running" /\ pc' = [f \in Feeds |-> "sleep"]
       ELSE app' = "failed" /\ UNCHANGED pc
    /\ UNCHANGED <<widget, probe, req, cfg, items, cache, rd, last, everOK>>

\* ------------------------------------------------------------ refresh loops
\* The task runs (for the first time, or its sleep is over): it enters
\* poll_once and runs to the await of the request, or to the except clause.
\* pc "sleep" is a task between two cycles, the new task included.
\* Faulty variant: the loop does not await the cycle it started (the cycle is
\* scheduled as a task of its own), so the next one begins while the stores
\* of the previous one are still to come.
BeginCycleOverlap(f) ==
    /\ app = "running"
    /\ pc[f] \in {"sleep", "st_data"}
    /\ IF ConfigError(f, cfg) = None
       THEN /\ pc' = [pc EXCEPT ![f] = "await"]
            /\ req' = [req EXCEPT ![f] = 1]
            /\ UNCHANGED <<cache, last, everOK>>
       ELSE /\ Except(f, ConfigError(f, cfg))
            /\ req' = [req EXCEPT ![f] = 0]
    /\ UNCHANGED <<widget, probe, cfg, app, items, rd>>

BeginCycle(f) ==
    /\ app = "running"
    /\ pc[f] = "sleep"
    /\ LoopFree
    /\ IF ConfigError(f, cfg) = None
       THEN /\ pc' = [pc EXCEPT ![f] = "await"]
            /\ req' = [req EXCEPT ![f] = 1]
            /\ UNCHANGED <<cache, last, everOK>>
       ELSE /\ Except(f, ConfigError(f, cfg))
            /\ req' = [req EXCEPT ![f] = 0]
    /\ UNCHANGED <<widget, probe, cfg, app, items, rd>>

\* Faulty variant: a request that fails is issued again at once, twice at
\* most, before the cycle gives up.
RespondRetry(f) ==
    /\ pc[f] = "await"
    /\ LoopFree
    /\ \E resp \in Responses(f) :
         IF PollOnce(f, resp).ok
         THEN /\ items' = [items EXCEPT ![f] = PollOnce(f, resp).items]
              /\ pc' = [pc EXCEPT ![f] = "st_upd"]
              /\ UNCHANGED <<cache, last, everOK, req>>
         ELSE IF req[f] < 3
              THEN /\ req' = [req EXCEPT ![f] = @ + 1]
                   /\ UNCHANGED <<cache, last, everOK, items, pc>>
              ELSE /\ Except(f, PollOnce(f, resp).msg)
                   /\ UNCHANGED <<items, req>>
    /\ UNCHANGED <<widget, probe, cfg, app, rd>>

\* The request ends; the task runs lines 86-93 (115-132) on what it got.
Respond(f) ==
    /\ pc[f] = "await"
    /\ LoopFree
    /\ \E resp \in Responses(f) :
         IF PollOnce(f, resp).ok
         THEN /\ items' = [items EXCEPT ![f] = PollOnce(f, resp).items]
              /\ pc' = [pc EXCEPT ![f] = "st_upd"]
              /\ UNCHANGED <<cache, last, everOK>>
         ELSE /\ Except(f, PollOnce(f, resp).msg)
              /\ UNCHANGED items
    /\ UNCHANGED <<widget, probe, req, cfg, app, rd>>

\* Line 94 (133).  datetime.now is a reading t of a clock that does not run
\* backwards.
PublishUpdatedAt(f) ==
    /\ pc[f] = "st_upd"
    /\ \E t \in 1..MaxNow :
         /\ t >= cache[f].updated_at
         /\ cache' = [cache EXCEPT ![f] = StoreUpdatedAt(@, t)]
    /\ pc' = [pc EXCEPT ![f] = "st_data"]
    /\ UNCHANGED <<widget, probe, req, cfg, app, items, rd, last, everOK>>

\* Line 95 (134).
PublishData(f) ==
    /\ pc[f] = "st_data"
    /\ cache' = [cache EXCEPT ![f] = StoreData(@, items[f])]
    /\ pc' = [pc EXCEPT ![f] = "st_err"]
    /\ UNCHANGED <<widget, probe, req, cfg, app, items, rd, last, everOK>>

\* Line 96 (135), the return of poll_once, and the sleep.
PublishError(f) ==
    /\ pc[f] = "st_err"
    /\ cache' = [cache EXCEPT ![f] = ClearError(@)]
    /\ pc' = [pc EXCEPT ![f] = "sleep"]
    /\ items' = [items EXCEPT ![f] = << >>]
    /\ Finish(f, "ok", None)
    /\ UNCHANGED <<widget, probe, req, cfg, app, rd>>

\* ------------------------------------------------- get_departures / get_bus
\* A finished call holds res: "ref" is the returned dictionary itself (the
\* object _cache or _bus_cache, not a copy), "502" the raised HTTPException.
Holds(r) == rd[r].pc = "done" /\ rd[r].res = "ref"
Deref(r) == cache[rd[r].feed]

\* Line 164 (172), left operand: load updated_at; when it is set the function
\* returns the dictionary.
GetLoadUpdatedAt(r, f) ==
    /\ app = "running"
    /\ rd[r].pc \in {"idle", "done"}
    /\ rd' = [rd EXCEPT ![r] =
                IF cache[f].updated_at = NoTime
                THEN [IdleReader EXCEPT !.pc = "ld_err", !.feed = f]
                ELSE [IdleReader EXCEPT !.pc = "done", !.feed = f, !.res = "ref"]]
    /\ UNCHANGED <<widget, probe, req, cfg, app, pc, items, cache, last, everOK>>

\* Line 164 (172), right operand: load error and test its truth value.
GetLoadError(r) ==
    /\ rd[r].pc = "ld_err"
    /\ rd' = [rd EXCEPT ![r] =
                IF Truthy(cache[rd[r].feed].error)
                THEN [@ EXCEPT !.pc = "ld_detail", !.err = cache[rd[r].feed].error]
                ELSE [@ EXCEPT !.pc = "done", !.res = "ref"]]
    /\ UNCHANGED <<widget, probe, req, cfg, app, pc, items, cache, last, everOK>>

\* Faulty variant: raising the 502 consumes the error.
GetRaiseConsumes(r) ==
    /\ rd[r].pc = "ld_detail"
    /\ rd' = [rd EXCEPT ![r] = [@ EXCEPT !.pc = "done", !.res = "502", !.err = None,
                                         !.detail = cache[rd[r].feed].error]]
    /\ cache' = [cache EXCEPT ![rd[r].feed] = ClearError(@)]
    /\ UNCHANGED <<widget, probe, req, cfg, app, pc, items, last, everOK>>

\* Line 165 (173): load error again for the detail and raise.
GetRaise(r) ==
    /\ rd[r].pc = "ld_detail"
    /\ rd' = [rd EXCEPT ![r] = [@ EXCEPT !.pc = "done", !.res = "502", !.err = None,
                                         !.detail = cache[rd[r].feed].error]]
    /\ UNCHANGED <<widget, probe, req, cfg, app, pc, items, cache, last, everOK>>

\* ----------------------------------------------------------- specification
Next ==
    \/ Startup
    \/ \E f \in Feeds : BeginCycle(f)
    \/ \E f \in Feeds : Respond(f)
    \/ \E f \in Feeds : PublishUpdatedAt(f)
    \/ \E f \in Feeds : PublishData(f)
    \/ \E f \in Feeds : PublishError(f)
    \/ \E r \in Readers, f \in Feeds : GetLoadUpdatedAt(r, f)
    \/ \E r \in Readers : GetLoadError(r)
    \/ \E r \in Readers : GetRaise(r)

Spec == Init /\ [][Next]_vars

TypeOK ==
    /\ app \in {"starting", "running", "failed"}
    /\ \A f \in Feeds : pc[f] \in {"none", "sleep", "await", "st_upd", "st_data", "st_err"}
    /\ \A f \in Feeds : cache[f].updated_at \in 0..MaxNow

\* Scheduling: the event loop runs every ready task (a request ends by its
\* answer or by the 15 s timeout, a sleep ends after POLL_SECONDS), and the
\* stores of a publishing task follow one another without an await.
Fairness ==
    \A f \in Feeds :
        /\ SF_vars(BeginCycle(f))
        /\ SF_vars(Respond(f))
        /\ WF_vars(PublishUpdatedAt(f))
        /\ WF_vars(PublishData(f))
        /\ WF_vars(PublishError(f))

\* The refresh loops alone.  No step of a reader changes what a step of a
\* loop reads or writes (C10), so the loops behave here as they do under Spec.
NextLoops ==
    \/ Startup
    \/ \E f \in Feeds : BeginCycle(f)
    \/ \E f \in Feeds : Respond(f)
    \/ \E f \in Feeds : PublishUpdatedAt(f)
    \/ \E f \in Feeds : PublishData(f)
    \/ \E f \in Feeds : PublishError(f)

FairLoops == Init /\ [][NextLoops]_vars /\ WF_vars(Startup) /\ Fairness

\* ------------------------------------------- the functions, applied alone
\* Lists of predictions in one response have at most MaxItems elements, and
\* countdown texts built from CountdownChars at most MaxText characters.
MaxItems == 2
MaxText == 2

SeqsUpTo(S, n) == UNION {[1..k -> S] : k \in 0..n}

\* <eta> elements: every pair of timestamp texts of EtaTimes, two routes.
EtaTimes == {<<7, 59, 30>>, <<8, 0, 0>>, <<8, 0, 59>>, <<8, 1, 0>>, <<8, 5, 30>>, << >>}
EtaInputs ==
    {[prdt |-> p, arrT |-> a, rt |-> r, destNm |-> d, stpDe |-> s, isDly |-> "0"] :
        p \in EtaTimes, a \in EtaTimes, r \in {"A", "B", "", " ", None},
        d \in {"Howard", "", None}, s \in {"Service toward Howard", None}}

EtaA == [EtaHoward EXCEPT !.rt = "A"]
EtaB == [EtaHoward EXCEPT !.rt = "B"]
EtaBlank == [EtaOHare EXCEPT !.rt = None, !.destNm = "", !.stpDe = None, !.isDly = None]

WideRailResponses ==
    {r \in RailResponses : r.kind # "xml"}
    \cup {[kind |-> "xml", msg |-> "", errCd |-> c, errNm |-> n, etas |-> e] :
            c \in {None, "", "0", "1", "500"}, n \in {None, "Bad Request"},
            e \in SeqsUpTo({EtaHoward, EtaOHare, EtaEarly, EtaNoTime, EtaA, EtaB, EtaBlank},
                            MaxItems)}

\* prdctdn values.
CountdownChars == {"0", "7", "-", " ", "sup2"}
CountdownTexts ==
    SeqsUpTo(CountdownChars, MaxText)
    \cup {<<d, u, e>> : d \in {"D", "d"}, u \in {"U", "u"}, e \in {"E", "e"}}
    \cup {<<" ", "D", "U", "E", " ">>, <<"E", "R", "R">>, <<"D", "L", "Y">>, <<"1", "2">>}

PrdA == [PrdSouth EXCEPT !.rt = "A", !.prdtm = "1", !.prdctdn = <<"d","u","e">>,
                         !.rtdir = <<"s","o","u","t","h","b","o","u","n","d">>]
PrdB == [PrdSouth EXCEPT !.rt = "B", !.prdtm = "1", !.prdctdn = <<"1","2">>]
PrdBare == [PrdSouth EXCEPT !.rt = None, !.prdtm = None, !.prdctdn = << >>]
PrdSuper == [PrdSouth EXCEPT !.prdctdn = <<"sup2">>]
PrdNoDir == [PrdNorth EXCEPT !.rtdir = << >>]
PrdNullDir == [PrdNorth EXCEPT !.rtdir = NullText]

BusErrors ==
    { [errForm |-> "absent", errMsgs |-> << >>, errRaw |-> ""],
      [errForm |-> "list", errMsgs |-> << >>, errRaw |-> "[]"],
      [errForm |-> "list", errMsgs |-> <<"No data found for parameter">>,
       errRaw |-> "[{'msg': 'No data found for parameter'}]"],
      [errForm |-> "list", errMsgs |-> <<"No arrival times", "No service scheduled">>,
       errRaw |-> "[{'msg': 'No arrival times'}, {'msg': 'No service scheduled'}]"],
      [errForm |-> "list", errMsgs |-> <<None>>, errRaw |-> "[{'stpid': '1234'}]"],
      [errForm |-> "list", errMsgs |-> <<None, None>>,
       errRaw |-> "[{'stpid': '1234'}, {'stpid': '5678'}]"],
      [errForm |-> "raw", errMsgs |-> << >>, errRaw |-> "Invalid API access key supplied"] }

WideBusResponses ==
    {r \in BusResponses : r.kind # "json"}
    \cup {[kind |-> "json", msg |-> "", envelope |-> v, errForm |-> e.errForm,
           errMsgs |-> e.errMsgs, errRaw |-> e.errRaw, prd |-> p] :
            v \in BOOLEAN, e \in BusErrors,
            p \in SeqsUpTo({PrdSouth, PrdNorth, PrdSigned, PrdA, PrdB, PrdBare, PrdSuper,
                          PrdNoDir, PrdNullDir}, MaxItems)}

WideResponses(f) == IF f = "rail" THEN WideRailResponses ELSE WideBusResponses

\* Caches a cycle can find: never written, written by failures only, written
\* by a success, and written by a success and then a failure.
PriorData(f) == IF f = "rail" THEN SortRail(MapEta(<<EtaHoward, EtaOHare>>))
                ELSE SortBus(KeepSouthbound(MapPrd(<<PrdSouth>>)))
PriorCaches(f) ==
    { EmptyCache,
      [updated_at |-> NoTime, data |-> << >>, error |-> "Server error '500'"],
      [updated_at |-> 1, data |-> PriorData(f), error |-> None],
      [updated_at |-> 1, data |-> PriorData(f), error |-> "Server error '500'"] }

\* One iteration of poll_forever (poll_bus_forever) that got resp and read
\* the clock as t, as a function of the cache c it found.
Cycle(f, c, resp, t) ==
    IF PollOnce(f, resp).ok
    THEN ClearError(StoreData(StoreUpdatedAt(c, t), PollOnce(f, resp).items))
    ELSE RecordError(c, PollOnce(f, resp).msg)

Apply_parse_eta ==
    /\ probe = NoProbe
    /\ \E e \in EtaInputs :
         probe' = [op |-> "eta", eta |-> e, ok |-> EtaParses(e),
                   item |-> IF EtaParses(e) THEN _parse_eta(e) ELSE None]
    /\ UNCHANGED <<widget, req, cfg, app, pc, items, cache, rd, last, everOK>>

Apply_parse_bus_prd ==
    /\ probe = NoProbe
    /\ \E t \in CountdownTexts :
         LET p == [PrdSouth EXCEPT !.prdctdn = t]
         IN  probe' = [op |-> "prd", prd |-> p, ok |-> PrdParses(p),
                       item |-> IF PrdParses(p) THEN _parse_bus_prd(p) ELSE None]
    /\ UNCHANGED <<widget, req, cfg, app, pc, items, cache, rd, last, everOK>>

ApplyCycle(f) ==
    /\ probe = NoProbe
    /\ \E c \in PriorCaches(f), resp \in WideResponses(f), t \in 1..MaxNow :
         /\ t >= c.updated_at
         /\ probe' = [op |-> "cycle", feed |-> f, before |-> c, resp |-> resp, now |-> t,
                      ok |-> PollOnce(f, resp).ok, after |-> Cycle(f, c, resp, t)]
    /\ UNCHANGED <<widget, req, cfg, app, pc, items, cache, rd, last, everOK>>

\* What the widget may be handed as a snapshot: a value that is no object,
\* an object without "data", with a null "data", or with a list of at most
\* MaxDepartures departures whose minutes are drawn from MinuteValues.
MaxDepartures == 3

MinuteValues ==
    {MinAbsent, MinNull, MinInt(0 - 1), MinInt(0), MinInt(3), MinInt(12),
     MinStr(<<"7">>), MinStr(<<"1", "2">>), MinStr(<<"-", "1">>), MinStr(<< >>),
     MinStr(<<"sup2">>)}

Snapshots ==
    {[object |-> FALSE, data |-> "absent", xs |-> << >>],
     [object |-> TRUE, data |-> "absent", xs |-> << >>],
     [object |-> TRUE, data |-> "null", xs |-> << >>]}
    \cup {[object |-> TRUE, data |-> "list", xs |-> xs] :
            xs \in SeqsUpTo({[minutes |-> m] : m \in MinuteValues}, MaxDepartures)}

Apply_next_two_mins ==
    /\ probe = NoProbe
    /\ \E d \in Snapshots :
         probe' = [op |-> "mins", data |-> d, ok |-> next_two_mins(d).ok,
                   mins |-> next_two_mins(d).mins]
    /\ UNCHANGED <<widget, req, cfg, app, pc, items, cache, rd, last, everOK>>

FunctionsInit == Init /\ \A f \in Feeds : ConfigError(f, cfg) = None

FunctionsNext ==
    \/ Apply_parse_eta
    \/ Apply_parse_bus_prd
    \/ \E f \in Feeds : ApplyCycle(f)
    \/ Apply_next_two_mins

Functions == FunctionsInit /\ [][FunctionsNext]_vars

\* ------------------------------------------------ the widget's arrival pulse
\* The nearest arrival an update shows for a feed: none, or 0..MaxMinutes
\* minutes (next_two_mins keeps no negative value).
NearestMinutes == {NoMinutes} \cup 0..MaxMinutes

Builds == {"ca", "timer"}

Pulsing(w, k) == w.anim[k] \/ w.pulse_timers[k]

PulseStarted(w, w2, f) ==
    \/ Pulsing(w2, MainKey(f)) /\ ~Pulsing(w, MainKey(f))
    \/ Pulsing(w2, LabelKey(f)) /\ ~Pulsing(w, LabelKey(f))

\* updateLabel_, lines 684-717: the views are rebuilt from the new items and
\* _update_pulses runs last.  tm and bm are the nearest arrivals shown.
UpdateLabel ==
    /\ \E tm \in NearestMinutes, bm \in NearestMinutes :
         LET m == [f \in WFeeds |-> IF f = "train" THEN tm ELSE bm]
             w2 == _update_pulses(widget, tm, bm)
         IN widget' = [w2 EXCEPT
                !.before = widget.within,
                !.within = [f \in WFeeds |-> Within(f, m[f])],
                !.started = [f \in WFeeds |-> PulseStarted(widget, w2, f)]]
    /\ UNCHANGED <<cfg, app, pc, items, cache, rd, last, everOK, probe, req>>

\* Core Animation ends an animation after its five repeats and removes it
\* (setRepeatCount_(5), setRemovedOnCompletion_(True), lines 542-543).
AnimationCompletes(k) ==
    /\ widget.anim[k]
    /\ widget' = [widget EXCEPT !.anim[k] = FALSE, !.opacity[k] = MaxOpacity]
    /\ UNCHANGED <<cfg, app, pc, items, cache, rd, last, everOK, probe, req>>

\* The timer of k fires (every 0.05 s while it is valid).
Tick(k) ==
    /\ widget.live[k] > 0
    /\ \E layer \in BOOLEAN : widget' = pulseTick_(widget, k, layer)
    /\ UNCHANGED <<cfg, app, pc, items, cache, rd, last, everOK, probe, req>>

\* What n ticks of the timer of k leave (fewer when its pulse ends earlier).
RECURSIVE Ticks(_, _, _)
Ticks(w, k, n) ==
    IF ~w.pulse_timers[k] \/ n = 0 THEN w
    ELSE IF n = 1 THEN pulseTick_(w, k, TRUE)
    ELSE Ticks(Ticks(w, k, n \div 2), k, n - (n \div 2))

\* What the timer of k leaves when it fires until its pulse is over: n
\* ticks, then 2n more, and so on.
RECURSIVE RunOut(_, _, _)
RunOut(w, k, n) == IF ~w.pulse_timers[k] THEN w ELSE RunOut(Ticks(w, k, n), k, 2 * n)

\* The timer of k fires until its pulse is over.  No update reads what the
\* earlier ticks write (info, opacity), so the updates that come between
\* them find what they find here before the first one.
PulseRuns(k) ==
    /\ widget.pulse_timers[k]
    /\ widget' = RunOut(widget, k, 1)
    /\ UNCHANGED <<cfg, app, pc, items, cache, rd, last, everOK, probe, req>>

WidgetInit ==
    /\ ServiceInit
    /\ \A f \in Feeds : ConfigError(f, cfg) = None
    /\ widget \in {Launched(b) : b \in Builds}

WidgetNext ==
    \/ UpdateLabel
    \/ \E k \in Keys : AnimationCompletes(k)
    \/ \E k \in Keys : PulseRuns(k)

Widget == WidgetInit /\ [][WidgetNext]_vars

\* The fallback's three functions under any caller: any sequence of calls of
\* _start_timer_pulse and _stop_timer_pulse on the keys of TimerKeys, and
\* the ticks of the timers they schedule.
TimerKeys == {"pulse_train", "pulse_bus_label"}

StartTimerPulse(k) ==
    /\ widget' = _start_timer_pulse(widget, "view", k)
    /\ UNCHANGED <<cfg, app, pc, items, cache, rd, last, everOK, probe, req>>

StopTimerPulse(k) ==
    /\ \E reset \in BOOLEAN : widget' = _stop_timer_pulse(widget, k, reset)
    /\ UNCHANGED <<cfg, app, pc, items, cache, rd, last, everOK, probe, req>>

TimerInit ==
    /\ ServiceInit
    /\ \A f \in Feeds : ConfigError(f, cfg) = None
    /\ widget = Launched("timer")

TimerNext ==
    \/ \E k \in TimerKeys : StartTimerPulse(k)
    \/ \E k \in TimerKeys : StopTimerPulse(k)
    \/ \E k \in TimerKeys : Tick(k)

\* A valid repeating timer on the run loop keeps firing.
TimerPulse == TimerInit /\ [][TimerNext]_vars /\ \A k \in TimerKeys : WF_vars(Tick(k))

\* ================================================================== claims
Fresh(f) == cache[f].error = None /\ cache[f].updated_at # NoTime
NeverSucceeded(f) == ~everOK[f]

\* C1: a cycle of a feed that fails, whatever the failure, leaves the cached
\* departures and updated_at as they were; only error changes.
C1_FailedCycleKeepsData ==
    [][\A f \in Feeds :
          (pc[f] \in {"sleep", "await"} /\ pc'[f] = "sleep" /\ last'[f].kind = "fail")
          => /\ cache'[f].data = cache[f].data
             /\ cache'[f].updated_at = cache[f].updated_at]_vars

C1_Witness ==
    \A f \in Feeds :
        /\ last[f].kind = "fail"
        /\ pc[f] = "sleep"
        /\ cache[f].data # << >>
        /\ cache[f].updated_at # NoTime
        /\ cache[f].error = last[f].msg

C6_ErrorTracksLastCycle ==
    \A f \in Feeds :
        /\ last[f].kind = "ok" => cache[f].error = None
        /\ last[f].kind = "fail" => cache[f].error # None /\ cache[f].error = last[f].msg

C6_Witness ==
    /\ last["rail"].kind = "fail" /\ cache["rail"].error = "CTA error 1: Bad Request"
    /\ everOK["rail"]
    /\ last["bus"].kind = "ok" /\ cache["bus"].error = None /\ pc["bus"] = "sleep"

\* C10: a call of either endpoint, whatever its outcome, changes neither
\* cache and starts no request and no cycle.
C10_ReadIsPure ==
    [][rd' # rd => UNCHANGED <<cache, pc, items, app>>]_vars

C10_Witness ==
    \E r \in Readers : rd[r].pc = "done" /\ rd[r].res = "502" /\ rd[r].feed = "bus"

\* The step ends a call of reader r.
Returns(r) == rd' # rd /\ rd'[r].pc = "done"

\* The snapshot that the cycle now storing its result will have published
\* when it completes.
Pending(f) == [updated_at |-> cache'[f].updated_at, data |-> items'[f], error |-> None]

\* The cache of f is between the stores of a cycle and holds an updated_at
\* that no completed cycle of f has left in it.
MidPublish(f) ==
    /\ pc'[f] \in {"st_data", "st_err"}
    /\ cache'[f].updated_at # last'[f].upd

\* C2: every read observes one complete snapshot.  The dictionary a read
\* returns holds, when it is returned, the contents the cache had after a
\* completed cycle (or has after the cycle that is completing), not the
\* stores of a cycle in part; a read that raises reports the error it tested.
C2_ReadSeesOneSnapshot ==
    [][\A r \in Readers :
          Returns(r) =>
            IF rd'[r].res = "ref"
            THEN MidPublish(rd'[r].feed) => cache'[rd'[r].feed] = Pending(rd'[r].feed)
            ELSE rd'[r].detail = rd[r].err]_vars

\* C3: the value a finished read holds is not changed by later cycles.
C3_HeldSnapshotImmutable ==
    [][\A r \in Readers :
          (Holds(r) /\ rd'[r] = rd[r]) => cache'[rd[r].feed] = Deref(r)]_vars

\* C5: a read raises the 502 if and only if the feed has never completed a
\* successful cycle and its most recent cycle failed.
C5_NotReadyIffNeverSucceededAndFailed ==
    [][\A r \in Readers :
          Returns(r) =>
            (rd'[r].res = "502"
             <=> (NeverSucceeded(rd'[r].feed) /\ last[rd'[r].feed].kind = "fail"))]_vars

\* C7: a refresh loop never gives up: its task never ends, whatever has
\* failed before a feed that can issue requests issues another one, and a
\* cycle whose request and normalization succeeded makes the feed Fresh.
C7_LoopNeverGivesUp ==
    \A f \in Feeds :
        /\ [](app = "running" => pc[f] # "none")
        /\ []((app = "running" /\ ConfigError(f, cfg) = None) => <>(pc[f] = "await"))
        /\ [](pc[f] = "st_upd" => <>(pc[f] = "sleep" /\ Fresh(f)))

C7_Witness ==
    \E f \in Feeds : pc[f] = "st_upd" /\ last[f].kind = "fail" /\ NeverSucceeded(f)

\* A step of the refresh task of f.
CycleStep(f) ==
    \/ cache'[f] # cache[f]
    \/ last'[f] # last[f]
    \/ pc'[f] # pc[f] /\ pc[f] # "none"

\* C8: a step of one feed's cycle leaves the other feed's cache and task
\* where they were, and a request of a feed is answered and processed
\* however often the other feed's cycles fail.
C8_FeedsIndependent ==
    /\ [][\A f \in Feeds :
            CycleStep(f) => /\ cache'[Other(f)] = cache[Other(f)]
                            /\ pc'[Other(f)] = pc[Other(f)]
                            /\ last'[Other(f)] = last[Other(f)]]_vars
    /\ \A f \in Feeds :
          []((pc[f] = "await" /\ last[Other(f)].kind = "fail") => <>(pc[f] # "await"))

C8_Witness ==
    /\ last["rail"].kind = "fail" /\ NeverSucceeded("rail") /\ pc["rail"] = "await"
    /\ last["bus"].kind = "ok" /\ Fresh("bus") /\ cache["bus"].data # << >>

RequiredPresent(c) == c.keyTrain /\ (c.stpId \/ c.mapId) /\ c.keyBus /\ c.busStpId

\* C9: when a required key or identifier is missing, startup fails, no loop
\* runs a cycle and no cycle records the missing value as its error.
C9_MissingConfigFatalAtStartup ==
    ~RequiredPresent(cfg) =>
        /\ app # "running"
        /\ \A f \in Feeds : pc[f] = "none" /\ last[f].kind = "none" /\ cache[f].error = None

\* The latest cycle of f, if there was one, has written its outcome.
OutcomeWritten(f) ==
    /\ last[f].kind = "ok" => cache[f].error = None /\ cache[f].updated_at = last[f].upd
    /\ last[f].kind = "fail" => cache[f].error = last[f].msg

\* C11: per feed at most one cycle is in progress: the two tasks are created
\* once, a cycle of a feed starts only when the feed's task is between two
\* cycles and the previous cycle has written its outcome to the cache, and
\* only the cycle in progress writes the feed's cache.
C11_OneCycleAtATime ==
    /\ [][app = "running" => app' = "running"]_vars
    /\ [][\A f \in Feeds :
            /\ (pc'[f] = "await" /\ pc[f] # "await")
               => (pc[f] = "sleep" /\ OutcomeWritten(f))
            /\ (last'[f] # last[f]) => (pc[f] \in {"sleep", "await", "st_err"} /\ pc'[f] = "sleep")
            /\ (cache'[f] # cache[f]) => (pc[f] # "none" /\ pc'[f] # "await")]_vars

C11_Witness ==
    /\ pc["rail"] = "await" /\ last["rail"].kind = "ok" /\ OutcomeWritten("rail")
    /\ pc["bus"] = "await" /\ last["bus"].kind = "fail" /\ OutcomeWritten("bus")

\* What the latest successful cycle of f published.
LastGood(f) == last[f].good

\* C12: last-known-good.  Once a feed has succeeded, its cache holds the
\* departures and the updated_at that its latest successful cycle published,
\* whatever failed since, and a read of the feed returns the dictionary (these
\* values and the latest error) and does not raise the 502.
C12_LastKnownGood ==
    [][\A f \in Feeds :
          everOK'[f] =>
            /\ cache'[f].updated_at = LastGood(f)'.updated_at
            /\ cache'[f].data = LastGood(f)'.data
            /\ \A r \in Readers :
                  (Returns(r) /\ rd'[r].feed = f) => rd'[r].res = "ref"]_vars

\* The application under examination is a cycle of f on a decoded body.
CycleOn(f, kind) == probe.op = "cycle" /\ probe.feed = f /\ probe.resp.kind = kind

\* The cycle failed and left departures and updated_at as it found them.
FailedKeeping ==
    /\ ~probe.ok
    /\ probe.after.data = probe.before.data
    /\ probe.after.updated_at = probe.before.updated_at

NonZeroCode(c) == c # None /\ c # "" /\ c # "0"

\* C13: a rail document whose errCd is present and not zero fails the cycle,
\* predictions or not: departures and updated_at stay, error becomes
\* "CTA error <code>: <name>".  A document whose errCd is absent or zero is
\* not failed by this check (it fails only when a prediction does not parse).
C13_RailErrorCodeFailsCycle ==
    CycleOn("rail", "xml") =>
        /\ NonZeroCode(probe.resp.errCd) =>
              /\ FailedKeeping
              /\ probe.after.error
                   = "CTA error " \o probe.resp.errCd \o ": " \o FmtOpt(probe.resp.errNm)
        /\ ~NonZeroCode(probe.resp.errCd) =>
              (probe.ok \/ \E i \in 1..Len(probe.resp.etas) : ~EtaParses(probe.resp.etas[i]))

C13_Witness ==
    /\ CycleOn("rail", "xml")
    /\ probe.resp.errCd = "1" /\ probe.resp.errNm = "Bad Request"
    /\ probe.resp.etas = <<EtaHoward, EtaOHare>>
    /\ probe.before = [updated_at |-> 1, data |-> PriorData("rail"), error |-> None]
    /\ probe.after = [updated_at |-> 1, data |-> PriorData("rail"),
                      error |-> "CTA error 1: Bad Request"]

\* The envelope is there and carries no error (none, or an empty list).
NoBusError == probe.resp.envelope /\ probe.resp.errMsgs = << >> /\ probe.resp.errForm # "raw"

\* No prediction of the body is southbound.
NoneSouthbound ==
    \A i \in 1..Len(probe.resp.prd) :
        DirectionLowers(probe.resp.prd[i]) /\ Lower(probe.resp.prd[i].rtdir) # Southbound

\* C14: a bus cycle whose envelope has no error and no predictions, or only
\* predictions that the direction filter drops, succeeds: departures become
\* the empty list, updated_at the time of the cycle, error absent.
C14_EmptyBusResultIsSuccess ==
    (/\ CycleOn("bus", "json") /\ NoBusError /\ NoneSouthbound
     /\ \A i \in 1..Len(probe.resp.prd) : PrdParses(probe.resp.prd[i]))
    => /\ probe.ok
       /\ probe.after = [updated_at |-> probe.now, data |-> << >>, error |-> None]

C14_Witness ==
    /\ CycleOn("bus", "json") /\ NoBusError
    /\ probe.resp.prd = <<PrdNorth>>
    /\ probe.before = [updated_at |-> 1, data |-> PriorData("bus"), error |-> "Server error '500'"]
    /\ probe.before.data # << >>
    /\ probe.after = [updated_at |-> MaxNow, data |-> << >>, error |-> None]

\* C15: a bus body without the envelope key fails the cycle with the
\* protocol error: nothing is published, departures and updated_at stay.
C15_MissingEnvelopeFailsCycle ==
    (CycleOn("bus", "json") /\ ~probe.resp.envelope)
    => /\ FailedKeeping
       /\ probe.after.error = "Unexpected Bus API response"

C15_Witness ==
    /\ CycleOn("bus", "json") /\ ~probe.resp.envelope
    /\ probe.resp.prd = <<PrdSouth>>
    /\ probe.before.data # << >> /\ probe.before.error = None
    /\ probe.after.data = probe.before.data
    /\ probe.after.error = "Unexpected Bus API response"

\* The envelope carries an error list.
ErrorList == probe.resp.envelope /\ probe.resp.errForm = "list"
NoMessages == \A i \in 1..Len(probe.resp.errMsgs) : probe.resp.errMsgs[i] = None
EmptyListPasses ==
    probe.resp.errMsgs = << >>
    => (probe.ok \/ \E i \in 1..Len(probe.resp.prd) :
                       ~PrdParses(probe.resp.prd[i]) \/ ~DirectionLowers(probe.resp.prd[i]))

IsClampedMinutes(m, d) ==
    /\ m >= 0
    /\ d < 60 => m = 0
    /\ d >= 60 => 60 * m <= d /\ d < 60 * (m + 1)

\* C17: for a rail prediction whose two timestamps parse, minutes is
\* max(floor((arrives_at - predicted_at) / 60 s), 0): 0 when arrives_at is
\* earlier than, or less than 60 s after, predicted_at, never negative, and
\* the same whatever the clock reads when the cycle runs.
C17_RailMinutesFromTimestamps ==
    /\ (probe.op = "eta" /\ ParseOk(probe.eta.prdt) /\ ParseOk(probe.eta.arrT))
       => /\ probe.ok
          /\ IsClampedMinutes(probe.item.minutes,
                              Seconds(probe.eta.arrT) - Seconds(probe.eta.prdt))
    /\ (CycleOn("rail", "xml") /\ probe.ok)
       => \A i \in 1..Len(probe.after.data) :
             IsClampedMinutes(probe.after.data[i].minutes,
                              probe.after.data[i].arrives_at - probe.after.data[i].predicted_at)

C17_Witness ==
    /\ probe.op = "eta"
    /\ probe.eta.prdt = <<8, 0, 0>> /\ probe.eta.arrT = <<7, 59, 30>>
    /\ probe.ok /\ probe.item.minutes = 0

\* C18: no departure in either cache has negative minutes: a rail departure
\* has an integer >= 0, a bus departure an integer >= 0 or none.
C18_MinutesNeverNegative ==
    /\ \A i \in 1..Len(cache["rail"].data) : cache["rail"].data[i].minutes >= 0
    /\ \A i \in 1..Len(cache["bus"].data) :
          cache["bus"].data[i].minutes = NoMinutes \/ cache["bus"].data[i].minutes >= 0

C18_Witness ==
    /\ \E i \in 1..Len(cache["rail"].data) :
          /\ cache["rail"].data[i].arrives_at < cache["rail"].data[i].predicted_at
          /\ cache["rail"].data[i].minutes = 0
    /\ \E i \in 1..Len(cache["bus"].data) :
          /\ cache["bus"].data[i].is_delayed
          /\ cache["bus"].data[i].minutes = NoMinutes

\* The integer that a text of decimal digits spells.
RECURSIVE DecimalValue(_)
DecimalValue(s) ==
    IF s = << >> THEN 0
    ELSE (IndexIn(Head(s), Digits) - 1) * 10 ^ (Len(s) - 1) + DecimalValue(Tail(s))

AllDigits(s) == s # << >> /\ \A i \in 1..Len(s) : s[i] \in {Digits[k] : k \in 1..Len(Digits)}

\* C19: the bus normalizer returns for every countdown value: the integer
\* for a text of digits, 0 for DUE in any letter case, no minutes for any
\* other value.
C19_CountdownNeverFails ==
    probe.op = "prd" =>
        /\ probe.ok
        /\ probe.item.minutes
             = IF AllDigits(Strip(probe.prd.prdctdn)) THEN DecimalValue(Strip(probe.prd.prdctdn))
               ELSE IF Upper(Strip(probe.prd.prdctdn)) = <<"D", "U", "E">> THEN 0
               ELSE NoMinutes

\* The predictions of the body as the cycle normalizes (and filters) them.
Normalized(f, resp) ==
    IF f = "rail" THEN MapEta(resp.etas) ELSE KeepSouthbound(MapPrd(resp.prd))

Count(x, s) == Cardinality({i \in 1..Len(s) : s[i] = x})
IsPermutation(s, t) ==
    /\ Len(s) = Len(t)
    /\ \A i \in 1..Len(s) : Count(s[i], s) = Count(s[i], t)

\* Departure a is not after departure b in the order (arrives_at, route).
NotAfter(f, a, b) ==
    LET arr(x) == IF f = "rail" THEN x.arrives_at ELSE StrRank(OrEmpty(x.arrives_at))
        rte(x) == StrRank(OrEmpty(x.route))
    IN  arr(a) < arr(b) \/ (arr(a) = arr(b) /\ rte(a) <= rte(b))

\* C20: what a successful cycle publishes is a permutation of the cycle's
\* normalized (for bus, direction-filtered) predictions in ascending order of
\* (arrives_at, route), an absent bus timestamp or route counting as "".
C20_PublishedSorted ==
    (probe.op = "cycle" /\ probe.ok)
    => /\ IsPermutation(probe.after.data, Normalized(probe.feed, probe.resp))
       /\ \A i, j \in 1..Len(probe.after.data) :
             i < j => NotAfter(probe.feed, probe.after.data[i], probe.after.data[j])

C20_Witness ==
    /\ CycleOn("rail", "xml") /\ probe.ok
    /\ probe.resp.etas = <<EtaB, EtaA>>
    /\ probe.after.data[1].route = "A" /\ probe.after.data[2].route = "B"
    /\ probe.after.data[1].arrives_at = probe.after.data[2].arrives_at

\* Text a is text b up to the letter case of each character.
SameIgnoringCase(a, b) ==
    /\ Len(a) = Len(b)
    /\ \A i \in 1..Len(a) : a[i] = b[i] \/ a[i] = UpperCh(b[i])

\* C21: a bus prediction is published if and only if its direction is
\* "southbound" up to letter case; any other prediction, one without a
\* direction included, is dropped and the cycle does not fail for it.
C21_OnlySouthboundPublished ==
    (/\ CycleOn("bus", "json") /\ NoBusError
     /\ \A i \in 1..Len(probe.resp.prd) : PrdParses(probe.resp.prd[i]))
    => /\ probe.ok
       /\ \A i \in 1..Len(probe.after.data) :
             SameIgnoringCase(probe.after.data[i].direction, Southbound)
       /\ \A i \in 1..Len(probe.resp.prd) :
             SameIgnoringCase(probe.resp.prd[i].rtdir, Southbound)
             => Count(_parse_bus_prd(probe.resp.prd[i]), probe.after.data)
                  = Count(probe.resp.prd[i], probe.resp.prd)

\* C22: a cycle of a feed issues at most one request; a request is issued
\* only by a task that leaves its sleep to start a cycle, and the step that
\* ends a request in failure puts the task to sleep without a new request.
C22_OneRequestPerCycle ==
    [][\A f \in Feeds :
          /\ req'[f] <= 1
          /\ req'[f] # req[f] => pc[f] = "sleep"
          /\ pc'[f] = "await" => (pc[f] = "await" \/ (pc[f] = "sleep" /\ req'[f] = 1))
          /\ (pc[f] = "await" /\ last'[f].kind = "fail" /\ last'[f] # last[f])
             => (pc'[f] = "sleep" /\ req'[f] = req[f])
          /\ (pc[f] = "await" /\ pc'[f] = "await") => req'[f] = req[f]]_vars

C22_Witness ==
    \A f \in Feeds : pc[f] = "sleep" /\ last[f].kind = "fail" /\ req[f] = 1 /\ everOK[f]

\* No cycle of f has succeeded: none has completed with success and none is
\* past its first store (line 94, 133), after which it cannot fail.
Uninitialized(f) == NeverSucceeded(f) /\ pc[f] \notin {"st_data", "st_err"}

Blank(x) == x = None \/ x = ""

\* What the claim expects in the field: "" for a blank element, else its text.
TextOrEmpty(x) == IF Blank(x) \/ x = " " THEN "" ELSE x

\* C24: a rail prediction whose route, destination or platform text is
\* missing or empty normalizes, with "" in that field, and a cycle whose
\* payload holds such a prediction publishes every prediction of the payload.
C24_BlankRailTextTolerated ==
    /\ (probe.op = "eta" /\ ParseOk(probe.eta.prdt) /\ ParseOk(probe.eta.arrT))
       => /\ probe.ok
          /\ probe.item.route = TextOrEmpty(probe.eta.rt)
          /\ probe.item.dest_name = TextOrEmpty(probe.eta.destNm)
          /\ probe.item.platform = TextOrEmpty(probe.eta.stpDe)
    /\ (/\ CycleOn("rail", "xml") /\ ~NonZeroCode(probe.resp.errCd)
        /\ \A i \in 1..Len(probe.resp.etas) :
              ParseOk(probe.resp.etas[i].prdt) /\ ParseOk(probe.resp.etas[i].arrT))
       => /\ probe.ok
          /\ Len(probe.after.data) = Len(probe.resp.etas)
          /\ \A i \in 1..Len(probe.resp.etas) :
                \E j \in 1..Len(probe.after.data) :
                    /\ probe.after.data[j].route = TextOrEmpty(probe.resp.etas[i].rt)
                    /\ probe.after.data[j].dest_name = TextOrEmpty(probe.resp.etas[i].destNm)
                    /\ probe.after.data[j].arrives_at = Seconds(probe.resp.etas[i].arrT)

C24_Witness ==
    /\ CycleOn("rail", "xml") /\ probe.ok
    /\ probe.resp.etas = <<EtaHoward, EtaBlank>>
    /\ Len(probe.after.data) = 2
    /\ probe.after.data[1].route = "" /\ probe.after.data[1].dest_name = ""
    /\ probe.after.data[1].platform = ""
    /\ probe.after.data[2].route = "Red"

\* Some prediction of the body makes the normalizer or the filter raise.
SomePredictionRaises ==
    IF probe.feed = "rail"
    THEN \E i \in 1..Len(probe.resp.etas) : ~EtaParses(probe.resp.etas[i])
    ELSE \E i \in 1..Len(probe.resp.prd) :
            ~PrdParses(probe.resp.prd[i]) \/ ~DirectionLowers(probe.resp.prd[i])

\* The body is one that reaches the normalization of its predictions.
ReachesNormalization ==
    IF probe.feed = "rail" THEN probe.resp.kind = "xml" /\ ~NonZeroCode(probe.resp.errCd)
    ELSE probe.resp.kind = "json" /\ NoBusError

\* C25: publication is all-or-nothing.  A cycle either fails and leaves
\* departures and updated_at as they were, or publishes every prediction of
\* the payload that the filter keeps; when normalizing any one prediction
\* raises, the cycle fails and none of the payload is published.
C25_AllOrNothing ==
    probe.op = "cycle" =>
        /\ (ReachesNormalization /\ SomePredictionRaises) => ~probe.ok
        /\ ~probe.ok => FailedKeeping /\ probe.after.error # None
        /\ probe.ok => /\ probe.after.updated_at = probe.now
                       /\ probe.after.error = None
                       /\ Len(probe.after.data) = Len(Normalized(probe.feed, probe.resp))

C25_Witness ==
    /\ CycleOn("rail", "xml") /\ ReachesNormalization
    /\ probe.resp.etas = <<EtaHoward, EtaNoTime>>
    /\ probe.before = [updated_at |-> 1, data |-> PriorData("rail"), error |-> None]
    /\ probe.after.data = PriorData("rail") /\ probe.after.updated_at = 1
    /\ probe.after.error # None

\* C26: over any sequence of updates the pulse of a feed (train threshold 5
\* minutes, bus 10) is started by an update exactly when that update shows
\* the nearest arrival within the threshold and the update before it (if
\* any) did not; and the feed is armed exactly when its latest update showed
\* the nearest arrival beyond the threshold or none.
C26_PulseOncePerApproach ==
    \A f \in WFeeds :
        /\ widget.started[f] <=> (widget.within[f] /\ ~widget.before[f])
        /\ widget.ready[f] <=> ~widget.within[f]

\* Two updates in a row showed the bus within its threshold, the pulse the
\* first one started is over, and the second one started none.
C26_Witness ==
    /\ widget.within["bus"] /\ widget.before["bus"]
    /\ ~widget.started["bus"]
    /\ ~Pulsing(widget, MainKey("bus"))
    /\ ~widget.ready["bus"]

\* C27: in the timer-driven fallback there is at most one timer per pulse
\* key (the one in the table), the opacity is within [0.3, 1.0] after every
\* step, a tick that reaches the low point for the fifth time removes the
\* timer from the table, invalidates it and leaves the opacity at 1.0, no
\* timer outlives its fifth low point, and every pulse ends.
C27_Bounded ==
    \A k \in TimerKeys :
        /\ widget.live[k] <= 1
        /\ widget.pulse_timers[k] <=> widget.live[k] = 1
        /\ widget.opacity[k] \in MinOpacity..MaxOpacity
        /\ widget.pulse_timers[k] => widget.info[k].pulses < max_pulses

C27_FifthLow ==
    \A k \in TimerKeys :
        (widget.info[k].pulses < max_pulses /\ widget'.info[k].pulses = max_pulses)
            => /\ ~widget'.pulse_timers[k]
               /\ widget'.live[k] = 0
               /\ widget'.opacity[k] = MaxOpacity

C27_TimerPulseEnds ==
    /\ []C27_Bounded
    /\ [][C27_FifthLow]_vars
    /\ \A k \in TimerKeys : widget.pulse_timers[k] ~> ~widget.pulse_timers[k]

\* A pulse that ran to its fifth low point, and is over.
C27_Witness ==
    /\ widget.build = "timer"
    /\ widget.info["pulse_train"].pulses = max_pulses
    /\ ~widget.pulse_timers["pulse_train"]
    /\ widget.live["pulse_train"] = 0
    /\ widget.opacity["pulse_train"] = MaxOpacity

\* The minutes of the departures of a snapshot that count: the non-negative
\* integers and the integers written as texts of decimal digits.
RECURSIVE MinutesOf(_)
MinutesOf(xs) ==
    IF xs = << >> THEN << >>
    ELSE LET m == Head(xs).minutes
         IN (IF m.t = "int" /\ m.n >= 0 THEN <<m.n>>
             ELSE IF m.t = "str" /\ AllDigits(m.s) THEN <<DecimalValue(m.s)>>
             ELSE << >>) \o MinutesOf(Tail(xs))

\* r is the (at most) two smallest values of vals, ascending.
TwoSmallest(r, vals) ==
    /\ Len(r) = Min2(2, Len(vals))
    /\ \A j \in 1..Len(r) : Count(r[j], r) <= Count(r[j], vals)
    /\ \A j \in 1..Len(r) : Cardinality({i \in 1..Len(vals) : vals[i] < r[j]}) <= j - 1
    /\ \A j \in 1..(Len(r) - 1) : r[j] <= r[j + 1]

HasDataList(d) == d.object /\ d.data = "list"

\* C28: next_two_mins returns, for every input, at most two values in
\* ascending order, the two smallest non-negative minutes of the snapshot's
\* departures (a text of digits counting as its integer, a departure
\* without minutes being ignored); for an input that is no object or has no
\* data list it returns the empty list.
C28_TwoSmallestMinutes ==
    probe.op = "mins" =>
        /\ probe.ok
        /\ Len(probe.mins) <= 2
        /\ ~HasDataList(probe.data) => probe.mins = << >>
        /\ HasDataList(probe.data) => TwoSmallest(probe.mins, MinutesOf(probe.data.xs))

\* The same for the inputs on which the function returns.
C28_WhenItReturns ==
    (probe.op = "mins" /\ probe.ok) =>
        /\ Len(probe.mins) <= 2
        /\ ~HasDataList(probe.data) => probe.mins = << >>
        /\ HasDataList(probe.data) => TwoSmallest(probe.mins, MinutesOf(probe.data.xs))

\* The function raises only on a null "data" and on a minutes text that
\* isdigit accepts and int rejects.
C28_RaisesOnlyOn ==
    (probe.op = "mins" /\ ~probe.ok) =>
        \/ probe.data.data = "null"
        \/ \E i \in 1..Len(probe.data.xs) :
               LET m == probe.data.xs[i].minutes
               IN m.t = "str" /\ m.s # << >> /\ ~AllDigits(m.s)

=============================================================================
